---------------------------- MODULE Spec2Model ----------------------------
(***************************************************************************)
(* A model of the On Air analytics engine (analytics.js) as a state        *)
(* machine: the inputs of a call (the entry collection, the wall clock,    *)
(* the host's time zone) are the state, every exported function is an      *)
(* action that leaves its result in `ret`, and calculateStats is also      *)
(* modelled statement by statement with the clock running beside it.       *)
(*                                                                         *)
(* Text is a sequence of one-character strings, so that the template       *)
(* literal `${artist}|||${song}` and String.prototype.split are computed   *)
(* and not assumed.  A timestamp is the tuple of the fields of an ISO-8601 *)
(* UTC string, <<year, month, day, hour, minute, second, millisecond>>; a  *)
(* Date is the number of milliseconds since 2024-01-22T00:00:00.000Z (a    *)
(* Monday), so that three weeks of instants fit TLC's integers.  The       *)
(* calendar covers January and February 2024.                              *)
(*                                                                         *)
(* The loader (data-loader.js) and the page (main.js) are modelled beside  *)
(* the engine: parseJSONL over lines whose JSON values carry their type,   *)
(* fetchDataFile and clearCache over the cache and a server whose files    *)
(* grow, and init, refreshData and handleFilterChange over appData, each   *)
(* async handler split at its awaits.                                      *)
(***************************************************************************)
EXTENDS Integers, Sequences, FiniteSets, TLC

VARIABLES
    entries,        \* the `entries` argument: a sequence of Entry records
    entriesAbsent,  \* TRUE when the argument is null or undefined
    clock,          \* the wall clock: what `new Date()` reads
    tz,             \* local time minus UTC, in milliseconds
    ret,            \* the last call: [op, arg, threw, val]
    pc,             \* calculateStats, statement by statement
    frame,          \* calculateStats' locals and its clock readings
    text,           \* the `text` argument of parseJSONL: a sequence of lines
    server,         \* the data files on the server: filename -> lines
    manifest,       \* the `files` of the server's data/manifest.json
    dataCache,      \* the loader's cache: filename -> parsed entries
    fetches,        \* fetchDataFile calls whose request awaits its response
    tasks,          \* loadAllData calls of init and refreshData in flight
    appData,        \* the application state of the page
    status          \* the page: "loading", "ready" or "error"

vars == <<entries, entriesAbsent, clock, tz, ret, pc, frame, text, server,
          manifest, dataCache, fetches, tasks, appData, status>>

-----------------------------------------------------------------------------
(* Bounds of the model *)

MaxLen == 3        \* entries per collection, ranking and latest entry
MaxLimit == 3      \* the limits tried are -MaxLimit .. MaxLimit
MaxTimedLen == 2   \* entries per collection where the clock and zone vary
MaxLines == 3      \* lines of a text given to parseJSONL
MaxFetches == 2    \* fetchDataFile calls awaiting a response at one time
MaxPending == 1    \* refreshData calls awaiting their data at one time

-----------------------------------------------------------------------------
(* Generic helpers: JavaScript's Array and Map operations *)

Range(s) == {s[i] : i \in 1..Len(s)}

Min(a, b) == IF a <= b THEN a ELSE b
Max(a, b) == IF a >= b THEN a ELSE b

SeqsUpTo(S, n) == UNION {[1..k -> S] : k \in 0..n}

\* Array.prototype.slice(start, end): a negative index counts from the end
SliceIndex(k, len) == IF k < 0 THEN Max(len + k, 0) ELSE Min(k, len)

slice(s, start, end) ==
    LET from == SliceIndex(start, Len(s))
        to   == SliceIndex(end, Len(s))
    IN  IF from >= to THEN <<>> ELSE SubSeq(s, from + 1, to)

\* A Map is the sequence of its [key, count] pairs in insertion order.
MapHas(m, k) == \E i \in 1..Len(m) : m[i].key = k

\* counts.set(key, (counts.get(key) || 0) + 1)
MapIncrement(m, k) ==
    IF MapHas(m, k)
    THEN [i \in 1..Len(m) |->
             IF m[i].key = k THEN [key |-> k, count |-> m[i].count + 1] ELSE m[i]]
    ELSE Append(m, [key |-> k, count |-> 1])

RECURSIVE CountKeys(_, _)
CountKeys(keys, m) ==
    IF keys = <<>> THEN m
    ELSE CountKeys(Tail(keys), MapIncrement(m, Head(keys)))

-----------------------------------------------------------------------------
(* Text *)

Separator == <<"|", "|", "|">>

\* String.prototype.indexOf(sep, from), 1-based; 0 when there is none
IndexOf(s, sep, from) ==
    LET hits == {i \in from..(Len(s) - Len(sep) + 1) :
                    SubSeq(s, i, i + Len(sep) - 1) = sep}
    IN  IF hits = {} THEN 0 ELSE CHOOSE i \in hits : \A j \in hits : i <= j

\* String.prototype.split(sep), sep not empty
RECURSIVE split(_, _)
split(s, sep) ==
    LET i == IndexOf(s, sep, 1)
    IN  IF i = 0 THEN <<s>>
        ELSE <<SubSeq(s, 1, i - 1)>> \o split(SubSeq(s, i + Len(sep), Len(s)), sep)

\* `${artist}|||${song}`
SongKey(artist, song) == artist \o Separator \o song

-----------------------------------------------------------------------------
(* Ranking and counting *)

\* (a, b) => b.count - a.count is negative: a sorts before b
ByCountDescending(a, b) == b.count - a.count < 0

\* Array.prototype.sort(compareFn) is stable (ECMAScript 2019): an insertion
\* sort that moves an item only past items the comparator puts after it.
RECURSIVE InsertByCount(_, _)
InsertByCount(sorted, x) ==
    IF sorted = <<>> THEN <<x>>
    ELSE LET last == sorted[Len(sorted)]
         IN  IF ByCountDescending(x, last)
             THEN Append(InsertByCount(SubSeq(sorted, 1, Len(sorted) - 1), x), last)
             ELSE Append(sorted, x)

\* An unstable sort: equal counts come out in reverse order of insertion.
RECURSIVE SortByCountTiesReversed(_)
SortByCountTiesReversed(s) ==
    IF s = <<>> THEN <<>>
    ELSE LET rest == SortByCountTiesReversed(SubSeq(s, 1, Len(s) - 1))
             x == s[Len(s)]
             k == Cardinality({i \in 1..Len(rest) : rest[i].count > x.count})
         IN  SubSeq(rest, 1, k) \o <<x>> \o SubSeq(rest, k + 1, Len(rest))

RECURSIVE SortByCount(_)
SortByCount(s) ==
    IF s = <<>> THEN <<>>
    ELSE InsertByCount(SortByCount(SubSeq(s, 1, Len(s) - 1)), s[Len(s)])

\* ([key, count]) => { const [artist, song] = key.split('|||'); ... }
SongItem(pair) ==
    LET parts == split(pair.key, Separator)
    IN  [artist |-> parts[1], song |-> parts[2], count |-> pair.count]

ArtistItem(pair) == [artist |-> pair.key, count |-> pair.count]

SongKeys(es) == [i \in 1..Len(es) |-> SongKey(es[i].artist, es[i].song)]

ArtistKeys(es) == [i \in 1..Len(es) |-> es[i].artist]

\* .sort((a, b) => b.count - a.count).slice(0, limit)
Rank(items, limit) == slice(SortByCount(items), 0, limit)

getTopSongs(es, limit) ==
    LET counts == CountKeys(SongKeys(es), <<>>)
    IN  Rank([i \in 1..Len(counts) |-> SongItem(counts[i])], limit)

getTopArtists(es, limit) ==
    LET counts == CountKeys(ArtistKeys(es), <<>>)
    IN  Rank([i \in 1..Len(counts) |-> ArtistItem(counts[i])], limit)

\* A Set's size: the number of distinct values added
getUniqueSongCount(es) == Cardinality(Range(SongKeys(es)))

getUniqueArtistCount(es) == Cardinality(Range(ArtistKeys(es)))

-----------------------------------------------------------------------------
(* Dates.  A Date's time value is in milliseconds since                    *)
(* 2024-01-22T00:00:00.000Z, a Monday; day number 0 is that day.           *)

MsPerSecond == 1000
MsPerMinute == 60000
MsPerHour == 3600000
MsPerDay == 86400000
HoursPerDay == 24
DaysPerWeek == 7

DaysBeforeMonth(month) == IF month = 1 THEN 0 ELSE 31

\* The day number of a calendar day of 2024; a day of the month below 1 or
\* past the month's end rolls into the neighbouring month, as MakeDay does.
DayNumber(month, day) == DaysBeforeMonth(month) + day - 22

MonthOf(dayNumber) == IF dayNumber + 22 <= 31 THEN 1 ELSE 2

DateOf(dayNumber) == dayNumber + 22 - DaysBeforeMonth(MonthOf(dayNumber))

TimeOfDay(h, mi, sec, ms) ==
    h * MsPerHour + mi * MsPerMinute + sec * MsPerSecond + ms

\* new Date(ts) of the ISO string "YYYY-MM-DDTHH:mm:ss.sssZ"
ParseDate(ts) ==
    DayNumber(ts[2], ts[3]) * MsPerDay + TimeOfDay(ts[4], ts[5], ts[6], ts[7])

\* Date.prototype.toISOString: the UTC fields
toISOString(t) ==
    LET dn == t \div MsPerDay
        r  == t % MsPerDay
    IN  <<2024, MonthOf(dn), DateOf(dn), r \div MsPerHour,
          (r % MsPerHour) \div MsPerMinute, (r % MsPerMinute) \div MsPerSecond,
          r % MsPerSecond>>

\* LocalTime(t) of ECMA-262: the host's zone has a fixed offset here
LocalTime(t) == t + tz

UTCTime(local) == local - tz

\* Date.prototype.getDay: Sunday = 0 .. Saturday = 6
getDay(t) == ((LocalTime(t) \div MsPerDay) + 1) % DaysPerWeek

getDate(t) == DateOf(LocalTime(t) \div MsPerDay)

getHours(t) == (LocalTime(t) % MsPerDay) \div MsPerHour

\* Date.prototype.setDate(day): the local month and time of day are kept
setDate(t, day) ==
    LET local == LocalTime(t)
    IN  UTCTime(DayNumber(MonthOf(local \div MsPerDay), day) * MsPerDay
                + (local % MsPerDay))

\* Date.prototype.setHours(h, mi, sec, ms): the local day is kept
setHours(t, h, mi, sec, ms) ==
    UTCTime((LocalTime(t) \div MsPerDay) * MsPerDay + TimeOfDay(h, mi, sec, ms))

-----------------------------------------------------------------------------
(* Time windows *)

filterByDateRange(es, startDate, endDate) ==
    SelectSeq(es, LAMBDA entry :
        ParseDate(entry.ts) >= startDate /\ ParseDate(entry.ts) <= endDate)

getStartOfISOWeekNoSundayCase(date) ==
    LET day  == getDay(date)
        diff == getDate(date) - day + 1
    IN  setHours(setDate(date, diff), 0, 0, 0, 0)

getStartOfISOWeek(date) ==
    LET day  == getDay(date)
        diff == getDate(date) - day + (IF day = 0 THEN -6 ELSE 1)
    IN  setHours(setDate(date, diff), 0, 0, 0, 0)

getEndOfISOWeek(date) ==
    LET start == getStartOfISOWeek(date)
        end   == setDate(start, getDate(start) + 6)
    IN  setHours(end, 23, 59, 59, 999)

\* const now = new Date(): one reading of the clock for both bounds
getCurrentWeekData(es) ==
    LET now == clock
    IN  filterByDateRange(es, getStartOfISOWeek(now), getEndOfISOWeek(now))

getLastNDays(es, days) ==
    LET now       == clock
        startDate == setHours(setDate(now, getDate(now) - days), 0, 0, 0, 0)
    IN  filterByDateRange(es, startDate, now)

\* A call that leaves `period` out passes undefined
Omitted == "undefined"

\* !period: the empty string and undefined are falsy
IsFalsyPeriod(period) == period = "" \/ period = Omitted

\* filterByTimePeriod with the `default: return entries` of its switch left
\* out: startDate stays undefined and no entry compares >= undefined
filterByTimePeriodNoDefault(es, period) ==
    IF period = "all" \/ IsFalsyPeriod(period) THEN es
    ELSE IF period = "thisweek" THEN getCurrentWeekData(es)
    ELSE IF period = "week"
         THEN LET now       == clock
                  startDate == setDate(now, getDate(now) - 7)
              IN  SelectSeq(es, LAMBDA entry : ParseDate(entry.ts) >= startDate)
    ELSE SelectSeq(es, LAMBDA entry : FALSE)

\* The branches of filterByTimePeriod over an entry array.  'month',
\* '3months' and 'year' reach outside the modelled calendar and are left out.
filterByTimePeriod(es, period) ==
    IF period = "all" \/ IsFalsyPeriod(period) THEN es
    ELSE IF period = "thisweek" THEN getCurrentWeekData(es)
    ELSE IF period = "week"
         THEN LET now       == clock
                  startDate == setDate(now, getDate(now) - 7)
              IN  SelectSeq(es, LAMBDA entry : ParseDate(entry.ts) >= startDate)
    ELSE es

-----------------------------------------------------------------------------
(* Latest entry, hourly buckets, heatmap, day names *)

LaterOrEqual(latest, current) ==
    IF ParseDate(current.ts) >= ParseDate(latest.ts) THEN current ELSE latest

\* (latest, current) => currentTime > latestTime ? current : latest
Later(latest, current) ==
    IF ParseDate(current.ts) > ParseDate(latest.ts) THEN current ELSE latest

\* Array.prototype.reduce without an initial value: it starts from es[1]
RECURSIVE ReduceLater(_, _)
ReduceLater(latest, rest) ==
    IF rest = <<>> THEN latest
    ELSE ReduceLater(Later(latest, Head(rest)), Tail(rest))

\* The result of getLatestEntry over an array: <<>> stands for null
getLatestEntry(es) ==
    IF Len(es) = 0 THEN <<>> ELSE <<ReduceLater(Head(es), Tail(es))>>

\* ts.toISOString().slice(0, 13): "YYYY-MM-DDTHH", as its four numbers
HourKey(entry) == SubSeq(toISOString(ParseDate(entry.ts)), 1, 4)

\* String.prototype.localeCompare of two hour keys: the fields have a fixed
\* width, so the strings compare as the tuples of their numbers do
RECURSIVE localeCompare(_, _)
localeCompare(a, b) ==
    IF a = <<>> \/ b = <<>> THEN (IF a = b THEN 0 ELSE IF a = <<>> THEN -1 ELSE 1)
    ELSE IF Head(a) < Head(b) THEN -1
    ELSE IF Head(a) > Head(b) THEN 1
    ELSE localeCompare(Tail(a), Tail(b))

RECURSIVE InsertByHour(_, _)
InsertByHour(sorted, x) ==
    IF sorted = <<>> THEN <<x>>
    ELSE LET last == sorted[Len(sorted)]
         IN  IF localeCompare(x.hour, last.hour) < 0
             THEN Append(InsertByHour(SubSeq(sorted, 1, Len(sorted) - 1), x), last)
             ELSE Append(sorted, x)

SortByHourSkipped(s) == s

\* .sort((a, b) => a.hour.localeCompare(b.hour))
RECURSIVE SortByHour(_)
SortByHour(s) ==
    IF s = <<>> THEN <<>>
    ELSE InsertByHour(SortByHour(SubSeq(s, 1, Len(s) - 1)), s[Len(s)])

HourKeys(es) == [i \in 1..Len(es) |-> HourKey(es[i])]

getHourlyPlayCounts(es, days) ==
    LET lastWeek      == getLastNDays(es, days)
        hourlyBuckets == CountKeys(HourKeys(lastWeek), <<>>)
    IN  SortByHour([i \in 1..Len(hourlyBuckets) |->
                       [hour  |-> hourlyBuckets[i].key,
                        count |-> hourlyBuckets[i].count]])

\* Array(7).fill(0).map(() => Array(24).fill(0)), indexed from 0
ZeroMatrix == [d \in 0..(DaysPerWeek - 1) |-> [h \in 0..(HoursPerDay - 1) |-> 0]]

HeatmapCellNoWrap(entry) ==
    LET date == ParseDate(entry.ts)
    IN  [day |-> getDay(date) + 6, hour |-> getHours(date)]

\* dayOfWeek = (date.getDay() + 6) % 7, hour = date.getHours()
HeatmapCell(entry) ==
    LET date == ParseDate(entry.ts)
    IN  [day |-> (getDay(date) + 6) % 7, hour |-> getHours(date)]

RECURSIVE FillHeatmap(_, _)
FillHeatmap(matrix, es) ==
    IF es = <<>> THEN matrix
    ELSE LET c == HeatmapCell(Head(es))
         IN  FillHeatmap(
                 [matrix EXCEPT ![c.day] = [@ EXCEPT ![c.hour] = @ + 1]], Tail(es))

generateHeatmapData(es) == FillHeatmap(ZeroMatrix, es)

DayNames == <<"Mon", "Tue", "Wed", "Thu", "Fri", "Sat", "Sun">>

\* days[dayIndex]: an index that is no index of the array reads no element
HasDayName(dayIndex) == dayIndex >= 0 /\ dayIndex < Len(DayNames)

getDayName(dayIndex) == DayNames[dayIndex + 1]

-----------------------------------------------------------------------------
(* Report assembly *)

TopLimit == 10

\* The object calculateStats returns, from the current week's entries
StatsObject(es, currentWeekEntries) ==
    [totalSongs    |-> Len(es),
     uniqueSongs   |-> getUniqueSongCount(es),
     uniqueArtists |-> getUniqueArtistCount(es),
     thisWeek      |-> Len(currentWeekEntries),
     topSongs      |-> getTopSongs(es, TopLimit),
     topArtists    |-> getTopArtists(es, TopLimit),
     topWeekSongs  |-> getTopSongs(currentWeekEntries, TopLimit),
     latestEntry   |-> getLatestEntry(es)]

calculateStats(es) == StatsObject(es, getCurrentWeekData(es))

-----------------------------------------------------------------------------
(* The inputs the model draws from *)

ArtistPool == {<<"a">>, <<"a", "|">>, <<"b">>}

SongPool == {<<"x">>, <<"|", "x">>}

FixedTs == <<2024, 1, 29, 10, 0, 0, 0>>

RankEntries == [artist : ArtistPool, song : SongPool, ts : {FixedTs}]

Limits == (0 - MaxLimit)..MaxLimit

LatestEntries ==
    [artist : {<<"a">>, <<"b">>}, song : {<<"x">>},
     ts : {<<2024, 1, 29, 10, 0, 0, 0>>, <<2024, 1, 29, 10, 0, 0, 1>>,
           <<2024, 2, 1, 0, 0, 0, 0>>}]

TzOffsets == {0 - 5 * MsPerHour, 0, 5 * MsPerHour + 30 * MsPerMinute}

LocalInstant(dayNumber, h, mi, sec, ms) ==
    dayNumber * MsPerDay + TimeOfDay(h, mi, sec, ms)

\* Local wall-clock instants of the entries: the last millisecond of the
\* week of January 22, the first and the last millisecond and a Thursday of
\* the week of January 29, the first millisecond of the week of February 5.
LocalStamps ==
    {LocalInstant(6, 23, 59, 59, 999), LocalInstant(7, 0, 0, 0, 0),
     LocalInstant(10, 10, 15, 0, 0), LocalInstant(13, 23, 59, 59, 999),
     LocalInstant(14, 0, 0, 0, 0)}

\* "now": every day of the week of January 29, Monday at its first and
\* Sunday at its last millisecond
LocalNows ==
    {LocalInstant(7, 0, 0, 0, 0), LocalInstant(13, 23, 59, 59, 999)}
    \cup {LocalInstant(d, 12, 30, 0, 0) : d \in 8..12}

\* The clock of a running calculateStats: around the end of the week
LocalClockPool ==
    {LocalInstant(12, 12, 30, 0, 0), LocalInstant(13, 23, 59, 59, 999),
     LocalInstant(14, 0, 0, 0, 0)}

TimedEntries(zone) ==
    [artist : {<<"a">>}, song : {<<"x">>},
     ts : {toISOString(l - zone) : l \in LocalStamps}]

DaysPool == {-1, 0, 3, 7}

Periods == {"all", "", Omitted, "thisweek", "week", "Thisweek"}

DayIndexes == -1..DaysPerWeek

-----------------------------------------------------------------------------
(* Calls and their outcomes *)

NoCall == [op |-> "none", arg |-> 0, outcome |-> "none", val |-> <<>>]

Returned(op, arg, val) == [op |-> op, arg |-> arg, outcome |-> "value", val |-> val]

ReturnedNull(op, arg) == [op |-> op, arg |-> arg, outcome |-> "null", val |-> <<>>]

ReturnedUndefined(op, arg) ==
    [op |-> op, arg |-> arg, outcome |-> "undefined", val |-> <<>>]

\* `for (... of null)` and `null.filter(...)` raise a TypeError
Threw(op, arg) == [op |-> op, arg |-> arg, outcome |-> "TypeError", val |-> <<>>]

NoFrame ==
    [reads |-> <<>>, now |-> 0, startOfWeek |-> 0, endOfWeek |-> 0,
     currentWeekEntries |-> <<>>]

Inputs == <<entries, entriesAbsent, clock, tz>>

\* let appData = { allEntries: [], entries: [], stats: null, currentPeriod: 'all' }
NoStats == [totalSongs |-> 0, none |-> TRUE]

InitialAppData ==
    [allEntries |-> <<>>, entries |-> <<>>, stats |-> NoStats,
     currentPeriod |-> "all"]

\* const dataCache = new Map()
EmptyCache == [f \in {} |-> <<>>]

Loader == <<text, server, manifest, dataCache, fetches, tasks>>

Page == <<appData, status>>

\* The page before its script runs: nothing requested, nothing cached
NothingLoaded ==
    /\ text = <<>>
    /\ server = EmptyCache
    /\ manifest = <<>>
    /\ dataCache = EmptyCache
    /\ fetches = <<>>
    /\ tasks = <<>>
    /\ appData = InitialAppData
    /\ status = "loading"

-----------------------------------------------------------------------------
(* Ranking and counting: Spec *)

GetTopSongs ==
    /\ \E limit \in Limits :
          ret' = IF entriesAbsent THEN Threw("getTopSongs", limit)
                 ELSE Returned("getTopSongs", limit, getTopSongs(entries, limit))
    /\ UNCHANGED <<Inputs, pc, frame, Loader, Page>>

GetTopArtists ==
    /\ \E limit \in Limits :
          ret' = IF entriesAbsent THEN Threw("getTopArtists", limit)
                 ELSE Returned("getTopArtists", limit, getTopArtists(entries, limit))
    /\ UNCHANGED <<Inputs, pc, frame, Loader, Page>>

GetUniqueSongCount ==
    /\ ret' = IF entriesAbsent THEN Threw("getUniqueSongCount", 0)
              ELSE Returned("getUniqueSongCount", 0, getUniqueSongCount(entries))
    /\ UNCHANGED <<Inputs, pc, frame, Loader, Page>>

GetUniqueArtistCount ==
    /\ ret' = IF entriesAbsent THEN Threw("getUniqueArtistCount", 0)
              ELSE Returned("getUniqueArtistCount", 0, getUniqueArtistCount(entries))
    /\ UNCHANGED <<Inputs, pc, frame, Loader, Page>>

Init ==
    /\ entriesAbsent \in BOOLEAN
    /\ entries \in (IF entriesAbsent THEN {<<>>} ELSE SeqsUpTo(RankEntries, MaxLen))
    /\ tz = 0
    /\ clock = ParseDate(FixedTs)
    /\ ret = NoCall
    /\ pc = "idle"
    /\ frame = NoFrame
    /\ NothingLoaded

Next ==
    \/ GetTopSongs
    \/ GetTopArtists
    \/ GetUniqueSongCount
    \/ GetUniqueArtistCount

Spec == Init /\ [][Next]_vars

-----------------------------------------------------------------------------
(* Latest entry: SpecLatest *)

GetLatestEntry ==
    /\ ret' = IF entriesAbsent \/ Len(entries) = 0
              THEN ReturnedNull("getLatestEntry", 0)
              ELSE Returned("getLatestEntry", 0, getLatestEntry(entries)[1])
    /\ UNCHANGED <<Inputs, pc, frame, Loader, Page>>

InitLatest ==
    /\ entriesAbsent \in BOOLEAN
    /\ entries \in (IF entriesAbsent THEN {<<>>} ELSE SeqsUpTo(LatestEntries, MaxLen))
    /\ tz = 0
    /\ clock = ParseDate(FixedTs)
    /\ ret = NoCall
    /\ pc = "idle"
    /\ frame = NoFrame
    /\ NothingLoaded

NextLatest == GetLatestEntry

SpecLatest == InitLatest /\ [][NextLatest]_vars

-----------------------------------------------------------------------------
(* Time windows, buckets and day names: SpecTime *)

FilterByTimePeriod ==
    /\ \E period \in Periods :
          ret' = IF entriesAbsent
                 THEN (IF period \in {"thisweek", "week"}
                       THEN Threw("filterByTimePeriod", period)
                       ELSE ReturnedNull("filterByTimePeriod", period))
                 ELSE Returned("filterByTimePeriod", period,
                               filterByTimePeriod(entries, period))
    /\ UNCHANGED <<Inputs, pc, frame, Loader, Page>>

GetCurrentWeekData ==
    /\ ret' = IF entriesAbsent THEN Threw("getCurrentWeekData", 0)
              ELSE Returned("getCurrentWeekData", 0, getCurrentWeekData(entries))
    /\ UNCHANGED <<Inputs, pc, frame, Loader, Page>>

GetLastNDays ==
    /\ \E days \in DaysPool :
          ret' = IF entriesAbsent THEN Threw("getLastNDays", days)
                 ELSE Returned("getLastNDays", days, getLastNDays(entries, days))
    /\ UNCHANGED <<Inputs, pc, frame, Loader, Page>>

GetHourlyPlayCounts ==
    /\ \E days \in DaysPool :
          ret' = IF entriesAbsent THEN Threw("getHourlyPlayCounts", days)
                 ELSE Returned("getHourlyPlayCounts", days,
                               getHourlyPlayCounts(entries, days))
    /\ UNCHANGED <<Inputs, pc, frame, Loader, Page>>

GenerateHeatmapData ==
    /\ ret' = IF entriesAbsent THEN Threw("generateHeatmapData", 0)
              ELSE Returned("generateHeatmapData", 0, generateHeatmapData(entries))
    /\ UNCHANGED <<Inputs, pc, frame, Loader, Page>>

GetDayName ==
    /\ \E dayIndex \in DayIndexes :
          ret' = IF HasDayName(dayIndex)
                 THEN Returned("getDayName", dayIndex, getDayName(dayIndex))
                 ELSE ReturnedUndefined("getDayName", dayIndex)
    /\ UNCHANGED <<Inputs, pc, frame, Loader, Page>>

InitTime ==
    /\ tz \in TzOffsets
    /\ clock \in {l - tz : l \in LocalNows}
    /\ entriesAbsent \in BOOLEAN
    /\ entries \in (IF entriesAbsent THEN {<<>>}
                    ELSE SeqsUpTo(TimedEntries(tz), MaxTimedLen))
    /\ ret = NoCall
    /\ pc = "idle"
    /\ frame = NoFrame
    /\ NothingLoaded

NextTime ==
    \/ FilterByTimePeriod
    \/ GetCurrentWeekData
    \/ GetLastNDays
    \/ GetHourlyPlayCounts
    \/ GenerateHeatmapData
    \/ GetDayName

SpecTime == InitTime /\ [][NextTime]_vars

-----------------------------------------------------------------------------
(* calculateStats statement by statement, the clock running: SpecStats *)

\* calculateStats(entries) is entered
CalculateStatsCall ==
    /\ pc = "idle"
    /\ pc' = "now"
    /\ frame' = NoFrame
    /\ UNCHANGED <<Inputs, ret, Loader, Page>>

\* getCurrentWeekData: const now = new Date()
ReadNow ==
    /\ pc = "now"
    /\ frame' = [frame EXCEPT !.now = clock, !.reads = Append(@, clock)]
    /\ pc' = "startOfWeek"
    /\ UNCHANGED <<Inputs, ret, Loader, Page>>

\* const startOfWeek = getStartOfISOWeek(now)
StartOfWeek ==
    /\ pc = "startOfWeek"
    /\ frame' = [frame EXCEPT !.startOfWeek = getStartOfISOWeek(frame.now)]
    /\ pc' = "endOfWeek"
    /\ UNCHANGED <<Inputs, ret, Loader, Page>>

EndOfWeekFromNewReading ==
    /\ pc = "endOfWeek"
    /\ frame' = [frame EXCEPT !.endOfWeek = getEndOfISOWeek(clock),
                              !.reads = Append(@, clock)]
    /\ pc' = "filter"
    /\ UNCHANGED <<Inputs, ret, Loader, Page>>

\* const endOfWeek = getEndOfISOWeek(now)
EndOfWeek ==
    /\ pc = "endOfWeek"
    /\ frame' = [frame EXCEPT !.endOfWeek = getEndOfISOWeek(frame.now)]
    /\ pc' = "filter"
    /\ UNCHANGED <<Inputs, ret, Loader, Page>>

\* return filterByDateRange(entries, startOfWeek, endOfWeek): entries.filter
\* of an absent collection raises, and calculateStats ends there
FilterWeek ==
    /\ pc = "filter"
    /\ IF entriesAbsent
       THEN /\ ret' = Threw("calculateStats", 0)
            /\ pc' = "done"
            /\ UNCHANGED frame
       ELSE /\ frame' = [frame EXCEPT !.currentWeekEntries =
                            filterByDateRange(entries, frame.startOfWeek,
                                              frame.endOfWeek)]
            /\ pc' = "build"
            /\ UNCHANGED ret
    /\ UNCHANGED <<Inputs, Loader, Page>>

\* return { totalSongs: entries.length, ... }
BuildStats ==
    /\ pc = "build"
    /\ ret' = Returned("calculateStats", 0,
                       StatsObject(entries, frame.currentWeekEntries))
    /\ pc' = "done"
    /\ UNCHANGED <<Inputs, frame, Loader, Page>>

\* Time passes between any two statements
Tick ==
    /\ \E later \in {l - tz : l \in LocalClockPool} :
          /\ later > clock
          /\ clock' = later
    /\ UNCHANGED <<entries, entriesAbsent, tz, ret, pc, frame, Loader, Page>>

InitStats ==
    /\ tz \in TzOffsets
    /\ clock \in {l - tz : l \in LocalClockPool}
    /\ entriesAbsent \in BOOLEAN
    /\ entries \in (IF entriesAbsent THEN {<<>>}
                    ELSE SeqsUpTo(TimedEntries(tz), MaxTimedLen))
    /\ ret = NoCall
    /\ pc = "idle"
    /\ frame = NoFrame
    /\ NothingLoaded

NextStats ==
    \/ CalculateStatsCall
    \/ ReadNow
    \/ StartOfWeek
    \/ EndOfWeek
    \/ FilterWeek
    \/ BuildStats
    \/ Tick

SpecStats == InitStats /\ [][NextStats]_vars

-----------------------------------------------------------------------------
(* Properties of ranking and counting, checked under Spec *)

IsTopCall == ret.op \in {"getTopSongs", "getTopArtists"} /\ ret.outcome = "value"

\* The grouping key of each entry, and of an item of the result
KeysOfCall == IF ret.op = "getTopSongs" THEN SongKeys(entries) ELSE ArtistKeys(entries)

ItemKey(item) ==
    IF ret.op = "getTopSongs" THEN SongKey(item.artist, item.song) ELSE item.artist

FirstSeen(keys, k) == CHOOSE i \in 1..Len(keys) : keys[i] = k /\ \A j \in 1..(i - 1) : keys[j] # k

Occurrences(keys, k) == Cardinality({i \in 1..Len(keys) : keys[i] = k})

\* C1: for every entry sequence and every limit >= 1, getTopSongs and
\* getTopArtists return at most min(limit, number of distinct keys) items
\* (exactly that many), every item carries the number of entries of its key,
\* the counts never increase along the result, and of two items with equal
\* counts the one whose key was met first in the input comes first.
C1_TopRankedByCountFirstSeen ==
    (IsTopCall /\ ret.arg >= 1) =>
        LET r    == ret.val
            keys == KeysOfCall
        IN  /\ Len(r) <= Min(ret.arg, Cardinality(Range(keys)))
            /\ Len(r) = Min(ret.arg, Cardinality(Range(keys)))
            /\ \A i \in 1..Len(r) :
                   /\ ItemKey(r[i]) \in Range(keys)
                   /\ r[i].count = Occurrences(keys, ItemKey(r[i]))
            /\ \A i, j \in 1..Len(r) :
                   i < j =>
                     /\ r[i].count >= r[j].count
                     /\ r[i].count = r[j].count =>
                          FirstSeen(keys, ItemKey(r[i])) < FirstSeen(keys, ItemKey(r[j]))

\* C1 witness: three distinct songs, the later two tied, ranked and cut to 2
C1_Witness ==
    /\ ret.op = "getTopSongs" /\ ret.outcome = "value" /\ ret.arg = 2
    /\ Cardinality(Range(SongKeys(entries))) = 3
    /\ Len(ret.val) = 2
    /\ ret.val[1].count = ret.val[2].count
    /\ FirstSeen(SongKeys(entries), ItemKey(ret.val[1])) = 1

DistinctSongPairs(es) == {<<es[i].artist, es[i].song>> : i \in 1..Len(es)}

\* C2 (as claimed): getUniqueSongCount equals the number of distinct
\* (artist, song) pairs by exact equality of both strings, also for strings
\* that contain the characters of the key separator.
C2_UniqueSongCountIsDistinctPairs ==
    (ret.op = "getUniqueSongCount" /\ ret.outcome = "value") =>
        ret.val = Cardinality(DistinctSongPairs(entries))

\* C3 (as claimed): getTopSongs and getTopArtists return an empty sequence
\* whenever entries is empty or limit <= 0, zero and every negative limit.
C3_EmptyForNonPositiveLimit ==
    (IsTopCall /\ (entries = <<>> \/ ret.arg <= 0)) => ret.val = <<>>

-----------------------------------------------------------------------------
(* Properties of getLatestEntry, checked under SpecLatest *)

Instant(entry) == ParseDate(entry.ts)

\* The first position that holds the greatest instant
FirstLatestIndex(es) ==
    CHOOSE i \in 1..Len(es) :
        /\ \A j \in 1..Len(es) : Instant(es[j]) <= Instant(es[i])
        /\ \A j \in 1..(i - 1) : Instant(es[j]) < Instant(es[i])

\* C4: getLatestEntry returns the no-entry sentinel (null) for an empty or
\* absent collection; for a non-empty collection in any order it returns an
\* entry whose ts is the maximum of all ts, and of several entries with the
\* maximal ts the one that comes first in the collection.
C4_LatestIsFirstMaximum ==
    ret.op = "getLatestEntry" =>
        IF entriesAbsent \/ entries = <<>>
        THEN ret.outcome = "null"
        ELSE /\ ret.outcome = "value"
             /\ \A j \in 1..Len(entries) : Instant(entries[j]) <= Instant(ret.val)
             /\ ret.val = entries[FirstLatestIndex(entries)]

\* C4 witness: the maximal ts is held by the second and the third entry,
\* which differ, and the second is returned
C4_Witness ==
    /\ ret.op = "getLatestEntry" /\ ret.outcome = "value"
    /\ Len(entries) = 3
    /\ Instant(entries[1]) < Instant(entries[2])
    /\ Instant(entries[3]) = Instant(entries[2])
    /\ entries[3] # entries[2]
    /\ ret.val = entries[2]

-----------------------------------------------------------------------------
(* Properties of the time windows, checked under SpecTime *)

\* The Monday-to-Sunday week of the local calendar that contains `now`,
\* counted in whole weeks from Monday 2024-01-22 (day number 0)
WeekStartOf(now) ==
    LET localDay == (now + tz) \div MsPerDay
    IN  (localDay - (localDay % DaysPerWeek)) * MsPerDay - tz

WeekEndOf(now) == WeekStartOf(now) + DaysPerWeek * MsPerDay - 1

InWeekOf(entry, now) ==
    Instant(entry) >= WeekStartOf(now) /\ Instant(entry) <= WeekEndOf(now)

EntriesInWeekOf(es, now) == SelectSeq(es, LAMBDA entry : InWeekOf(entry, now))

\* C5: for every "now", on every day of the week, filterByTimePeriod(entries,
\* "thisweek") keeps exactly the entries, in their order, whose ts lies
\* between Monday 00:00:00.000 and Sunday 23:59:59.999, both inclusive, of the
\* Monday-to-Sunday week that contains "now"; the window contains "now".
C5_ThisWeekIsTheIsoWeekOfNow ==
    (ret.op = "filterByTimePeriod" /\ ret.outcome = "value" /\ ret.arg = "thisweek") =>
        /\ ret.val = EntriesInWeekOf(entries, clock)
        /\ getStartOfISOWeek(clock) = WeekStartOf(clock)
        /\ getEndOfISOWeek(clock) = WeekEndOf(clock)
        /\ WeekStartOf(clock) <= clock /\ clock <= WeekEndOf(clock)

\* C5 witness: on a Sunday, the entry of the week's first millisecond is
\* kept and the entry of the millisecond before it is dropped
C5_Witness ==
    /\ ret.op = "filterByTimePeriod" /\ ret.outcome = "value" /\ ret.arg = "thisweek"
    /\ getDay(clock) = 0
    /\ Len(entries) = 2 /\ Len(ret.val) = 1
    /\ Instant(entries[1]) = WeekStartOf(clock) - 1
    /\ Instant(entries[2]) = WeekStartOf(clock)
    /\ ret.val[1] = entries[2]

-----------------------------------------------------------------------------
(* Properties of the heatmap, the hourly buckets and the day names *)

RECURSIVE SumTo(_, _)
SumTo(f, n) == IF n < 0 THEN 0 ELSE f[n] + SumTo(f, n - 1)

MatrixSum(matrix) ==
    SumTo([d \in 0..(DaysPerWeek - 1) |-> SumTo(matrix[d], HoursPerDay - 1)],
          DaysPerWeek - 1)

\* C7: for every entry sequence, the empty one included, generateHeatmapData
\* returns a matrix of exactly 7 rows by 24 columns of non-negative integers
\* whose cells sum to entries.length.
C7_HeatmapShapeAndSum ==
    (ret.op = "generateHeatmapData" /\ ret.outcome = "value") =>
        /\ DOMAIN ret.val = 0..6
        /\ \A d \in 0..6 :
               /\ DOMAIN ret.val[d] = 0..23
               /\ \A h \in 0..23 : ret.val[d][h] \in Nat
        /\ MatrixSum(ret.val) = Len(entries)

\* C7 witness: two entries, in two different cells of the matrix
C7_Witness ==
    /\ ret.op = "generateHeatmapData" /\ ret.outcome = "value"
    /\ Len(entries) = 2
    /\ Cardinality({<<d, h>> \in (0..6) \X (0..23) : ret.val[d][h] = 1}) = 2

HourKeyBefore(a, b) ==
    \E k \in 1..4 : a[k] < b[k] /\ \A m \in 1..(k - 1) : a[m] = b[m]

RECURSIVE SumCounts(_)
SumCounts(buckets) ==
    IF buckets = <<>> THEN 0 ELSE Head(buckets).count + SumCounts(Tail(buckets))

\* C8: for every entry sequence and days value, the buckets returned by
\* getHourlyPlayCounts are in strictly ascending order of hour key, no hour
\* key appears twice, every bucket has count >= 1, and the counts sum to the
\* number of entries that getLastNDays keeps.
C8_HourlyBucketsAscending ==
    (ret.op = "getHourlyPlayCounts" /\ ret.outcome = "value") =>
        LET r == ret.val
        IN  /\ \A i, j \in 1..Len(r) : i < j => HourKeyBefore(r[i].hour, r[j].hour)
            /\ \A i, j \in 1..Len(r) : i # j => r[i].hour # r[j].hour
            /\ \A i \in 1..Len(r) : r[i].count >= 1
            /\ SumCounts(r) = Len(getLastNDays(entries, ret.arg))

\* C8 witness: two kept entries of different hours, the later one first
C8_Witness ==
    /\ ret.op = "getHourlyPlayCounts" /\ ret.outcome = "value"
    /\ Len(entries) = 2 /\ Len(ret.val) = 2
    /\ Instant(entries[1]) > Instant(entries[2])
    /\ ret.val[1].hour = HourKey(entries[2])

\* C9 (as claimed): getDayName maps 0..6 to "Mon".."Sun" in order, and for
\* every index outside 0..6 it fails (OutOfRange) instead of returning.
C9_DayNameFailsOutOfRange ==
    ret.op = "getDayName" =>
        IF ret.arg \in 0..6
        THEN ret.outcome = "value" /\ ret.val = DayNames[ret.arg + 1]
        ELSE ret.outcome \notin {"value", "null", "undefined"}

-----------------------------------------------------------------------------
(* Properties of calculateStats, checked under SpecStats *)

\* C6: within one calculateStats call every time-relative result rests on
\* one single reading of the clock, however the clock advances between the
\* statements: the call reads the clock once, the week's start and end are
\* those of the week of that reading, the this-week count is the size of the
\* subset of that week, and the this-week top songs are ranked over it.
C6_StatsUseOneClockReading ==
    /\ Len(frame.reads) <= 1
    /\ pc \in {"endOfWeek", "filter", "build", "done"} =>
          frame.startOfWeek = WeekStartOf(frame.reads[1])
    /\ pc \in {"filter", "build"} =>
          frame.endOfWeek = WeekEndOf(frame.reads[1])
    /\ (pc = "done" /\ ret.outcome = "value") =>
          LET week == EntriesInWeekOf(entries, frame.reads[1])
          IN  /\ frame.endOfWeek = WeekEndOf(frame.reads[1])
              /\ frame.currentWeekEntries = week
              /\ ret.val.thisWeek = Len(week)
              /\ ret.val.topWeekSongs = getTopSongs(week, TopLimit)

\* C6 witness: the call has returned, the clock has passed into the next
\* week since the call read it, and each of the two weeks holds an entry
C6_Witness ==
    /\ pc = "done" /\ ret.outcome = "value"
    /\ WeekStartOf(clock) > WeekStartOf(frame.reads[1])
    /\ ret.val.thisWeek = 1
    /\ Len(EntriesInWeekOf(entries, clock)) = 1
    /\ Len(entries) = 2

-----------------------------------------------------------------------------
(* Empty and absent collections *)

CollectionOps ==
    {"calculateStats", "getTopSongs", "getTopArtists", "getUniqueSongCount",
     "getUniqueArtistCount", "getLatestEntry", "filterByTimePeriod",
     "getCurrentWeekData", "getLastNDays", "getHourlyPlayCounts",
     "generateHeatmapData"}

\* The result of a call is the empty or zeroed one of its function
EmptyOrZeroed ==
    CASE ret.op \in {"getUniqueSongCount", "getUniqueArtistCount"} ->
            ret.outcome = "value" /\ ret.val = 0
      [] ret.op = "getLatestEntry" -> ret.outcome = "null"
      [] ret.op = "generateHeatmapData" ->
            ret.outcome = "value" /\ ret.val = ZeroMatrix
      [] ret.op = "calculateStats" ->
            /\ ret.outcome = "value"
            /\ ret.val = [totalSongs |-> 0, uniqueSongs |-> 0, uniqueArtists |-> 0,
                          thisWeek |-> 0, topSongs |-> <<>>, topArtists |-> <<>>,
                          topWeekSongs |-> <<>>, latestEntry |-> <<>>]
      [] OTHER -> ret.outcome = "value" /\ ret.val = <<>>

\* C10 (as claimed): every engine function that takes an entry collection
\* returns an empty or zeroed result, and never raises, when the collection
\* is empty and also when it is absent (null or undefined).
C10_EmptyOrAbsentNeverRaises ==
    (ret.op \in CollectionOps /\ (entriesAbsent \/ entries = <<>>)) =>
        /\ ret.outcome # "TypeError"
        /\ EmptyOrZeroed

\* The part of C10 about empty collections, which the code keeps
EmptyCollectionsDegrade ==
    (ret.op \in CollectionOps /\ ~entriesAbsent /\ entries = <<>>) => EmptyOrZeroed

-----------------------------------------------------------------------------
(* Ingestion: JSON lines, src/js/data-loader.js *)

\* A JSON value as JavaScript sees it after JSON.parse.  A string in the
\* form of an ISO 8601 instant holds the instant's fields in `instant`, as
\* the engine's ts does; any other string holds its characters in `chars`.
JString(chars) == [type |-> "string", chars |-> chars, instant |-> <<>>, number |-> 0]

JDate(ts) == [type |-> "string", chars |-> <<>>, instant |-> ts, number |-> 0]

JNumber(n) == [type |-> "number", chars |-> <<>>, instant |-> <<>>, number |-> n]

JUndefined == [type |-> "undefined", chars |-> <<>>, instant |-> <<>>, number |-> 0]

JObject(artist, song, ts) ==
    [type |-> "object", artist |-> artist, song |-> song, ts |-> ts]

JNull == [type |-> "null", artist |-> JUndefined, song |-> JUndefined,
          ts |-> JUndefined]

\* entry.artist, entry.song, entry.ts: undefined on anything but an object
Property(value, name) ==
    IF value.type = "object" THEN value[name] ELSE JUndefined

\* JavaScript's truthiness: "", 0, null and undefined are falsy
Truthy(value) ==
    CASE value.type = "string" -> Len(value.chars) + Len(value.instant) > 0
      [] value.type = "number" -> value.number # 0
      [] value.type = "object" -> TRUE
      [] OTHER -> FALSE

\* A line of the text: blank, not JSON, or the JSON text of `value`
BlankLine == [kind |-> "blank", value |-> JNull]

BrokenLine == [kind |-> "broken", value |-> JNull]

JsonLine(value) == [kind |-> "json", value |-> value]

\* try { return JSON.parse(line) } catch (error) { return null }
JSONparse(line) == IF line.kind = "json" THEN line.value ELSE JNull

\* entry && entry.artist && entry.song && entry.ts
IsKept(entry) ==
    /\ Truthy(entry)
    /\ Truthy(Property(entry, "artist"))
    /\ Truthy(Property(entry, "song"))
    /\ Truthy(Property(entry, "ts"))

\* parseJSONL(text): an empty text gives []; blank lines are skipped, each
\* other line is parsed, and the entries with the three fields are kept
parseJSONL(lines) ==
    LET nonBlank == SelectSeq(lines, LAMBDA line : line.kind # "blank")
        parsed   == [i \in 1..Len(nonBlank) |-> JSONparse(nonBlank[i])]
    IN  IF lines = <<>> \/ nonBlank = <<>> THEN <<>>
        ELSE SelectSeq(parsed, IsKept)

\* The lines tried: two plays, a blank line, a line that is not JSON, the
\* JSON text `null`, and plays with an empty artist, without ts, with a ts
\* that is no date, and with a number for the artist
PlayLine(artist, ts) == JsonLine(JObject(JString(artist), JString(<<"x">>), JDate(ts)))

IngestLines ==
    {PlayLine(<<"a">>, <<2024, 1, 29, 10, 0, 0, 0>>),
     PlayLine(<<"b">>, <<2024, 2, 1, 0, 0, 0, 0>>),
     BlankLine,
     BrokenLine,
     JsonLine(JNull),
     PlayLine(<<>>, <<2024, 1, 29, 10, 0, 0, 0>>),
     JsonLine(JObject(JString(<<"a">>), JString(<<"x">>), JUndefined)),
     JsonLine(JObject(JString(<<"a">>), JString(<<"x">>),
                      JString(<<"s", "o", "o", "n">>))),
     JsonLine(JObject(JNumber(7), JString(<<"x">>),
                      JDate(<<2024, 1, 29, 10, 0, 0, 0>>)))}

ParseJSONL ==
    /\ ret' = Returned("parseJSONL", 0, parseJSONL(text))
    /\ UNCHANGED <<Inputs, pc, frame, Loader, Page>>

InitIngest ==
    /\ entriesAbsent = FALSE
    /\ entries = <<>>
    /\ tz = 0
    /\ clock = ParseDate(FixedTs)
    /\ ret = NoCall
    /\ pc = "idle"
    /\ frame = NoFrame
    /\ text \in SeqsUpTo(IngestLines, MaxLines)
    /\ server = EmptyCache
    /\ manifest = <<>>
    /\ dataCache = EmptyCache
    /\ fetches = <<>>
    /\ tasks = <<>>
    /\ appData = InitialAppData
    /\ status = "loading"

NextIngest == ParseJSONL

SpecIngest == InitIngest /\ [][NextIngest]_vars

\* A non-empty text: a string of at least one character
IsNonEmptyText(value) ==
    value.type = "string" /\ Len(value.chars) + Len(value.instant) > 0

\* new Date(value) is a valid instant: a number, or a string in date form
ParsesToInstant(value) ==
    \/ value.type = "number"
    \/ value.type = "string" /\ value.instant # <<>>

WellFormedEntry(value) ==
    /\ value.type = "object"
    /\ IsNonEmptyText(value.artist)
    /\ IsNonEmptyText(value.song)
    /\ ParsesToInstant(value.ts)

WellFormedLine(line) == line.kind = "json" /\ WellFormedEntry(line.value)

WellFormedEntries(lines) ==
    LET kept == SelectSeq(lines, WellFormedLine)
    IN  [i \in 1..Len(kept) |-> kept[i].value]

\* C11 (as claimed): every entry parseJSONL hands on has a non-empty text
\* artist, a non-empty text song and a ts that parses to a valid instant;
\* every line that is not valid JSON or lacks one of these is dropped, and
\* all other lines are kept in their original order.
C11_IngestedEntriesWellFormed ==
    ret.op = "parseJSONL" =>
        /\ \A i \in 1..Len(ret.val) : WellFormedEntry(ret.val[i])
        /\ ret.val = WellFormedEntries(text)

\* What the code does keep: the parsed lines whose three fields are truthy,
\* in their original order
ParseJSONLKeepsTruthyFields ==
    ret.op = "parseJSONL" =>
        LET kept == SelectSeq(text, LAMBDA line : line.kind = "json" /\ IsKept(line.value))
        IN  ret.val = [i \in 1..Len(kept) |-> kept[i].value]

-----------------------------------------------------------------------------
(* Periods that do not filter *)

\* The tokens filterByTimePeriod filters by; they are matched with ===
FilteringTokens == {"thisweek", "week", "month", "3months", "year"}

\* C12: for a period that is "all", empty, omitted or not a recognised token
\* (a recognised token in another case included), filterByTimePeriod
\* returns the very collection it was given, same members, order and count,
\* whatever the clock reads.
C12_UnrecognisedPeriodIsIdentity ==
    (ret.op = "filterByTimePeriod" /\ ret.arg \notin FilteringTokens) =>
        IF entriesAbsent THEN ret.outcome = "null"
        ELSE ret.outcome = "value" /\ ret.val = entries

\* "Thisweek" given with entries of which "thisweek" would drop some
C12_Witness ==
    /\ ret.op = "filterByTimePeriod"
    /\ ret.arg = "Thisweek"
    /\ ~entriesAbsent
    /\ Len(getCurrentWeekData(entries)) < Len(entries)
    /\ ret.val = entries

-----------------------------------------------------------------------------
(* The loader: data files, their cache and the requests for them *)

\* getISOWeek(date): the ISO week of the local day, "2024-Www"; the week is
\* that of the day's Thursday, counted from January 1
getISOWeek(t) ==
    LET day       == LocalTime(t) \div MsPerDay
        dayNum    == IF getDay(t) = 0 THEN 7 ELSE getDay(t)
        thursday  == day + 4 - dayNum
        yearStart == DayNumber(1, 1)
        weekNo    == (thursday - yearStart + 1 + 6) \div 7
    IN  <<2024, weekNo>>

\* `${getISOWeek(new Date())}.jsonl`: a filename is held as its year and week
getCurrentWeekFilename == getISOWeek(clock)

\* createFallbackManifest().files
createFallbackManifest == <<getCurrentWeekFilename>>

\* The engine's model reads an entry's artist and song as their characters
\* and its ts as the instant's fields
AsEntry(value) ==
    [artist |-> value.artist.chars, song |-> value.song.chars,
     ts |-> value.ts.instant]

ParsedEntries(lines) ==
    LET parsed == parseJSONL(lines)
    IN  [i \in 1..Len(parsed) |-> AsEntry(parsed[i])]

\* dataCache.has(filename), dataCache.set(filename, entries)
CacheHas(cache, filename) == filename \in DOMAIN cache

CacheSet(cache, filename, fileEntries) ==
    [f \in DOMAIN cache \cup {filename} |->
        IF f = filename THEN fileEntries ELSE cache[f]]

\* fetchDataFile with a catch block that also stores the empty result
FetchCaughtAndCached(cache, filename) ==
    [cache |-> CacheSet(cache, filename, <<>>), entries |-> <<>>]

\* fetchDataFile after an ok response: the text is parsed, the entries are
\* cached and returned
FetchParsed(cache, filename, lines) ==
    [cache |-> CacheSet(cache, filename, ParsedEntries(lines)),
     entries |-> ParsedEntries(lines)]

\* fetchDataFile after a network error or a response that is not ok:
\* catch (error) { console.error(...); return [] }
FetchCaught(cache, filename) == [cache |-> cache, entries |-> <<>>]

RemoveAt(s, i) == SubSeq(s, 1, i - 1) \o SubSeq(s, i + 1, Len(s))

\* The data files there can be: the weeks of January 29 and of February 5
Week5 == <<2024, 5>>

Week6 == <<2024, 6>>

Filenames == {Week5, Week6}

\* The plays the station logs, in order: late on the Sunday before the week
\* of January 29, on its Thursday, in its last millisecond, and in the first
\* millisecond of the week after
Plays ==
    <<PlayLine(<<"a">>, <<2024, 1, 28, 23, 59, 59, 999>>),
      PlayLine(<<"b">>, <<2024, 2, 1, 10, 15, 0, 0>>),
      PlayLine(<<"a">>, <<2024, 2, 4, 23, 59, 59, 999>>),
      PlayLine(<<"a">>, <<2024, 2, 5, 0, 0, 0, 0>>)>>

\* The logger appends a play to the data file of the current week
NextPlay(filename) ==
    IF filename = Week5 THEN Plays[Len(server[Week5]) + 1]
    ELSE Plays[Len(Plays)]

ServerAppend ==
    /\ \E filename \in DOMAIN server :
          /\ filename = getCurrentWeekFilename
          /\ Len(server[filename]) < MaxLines
          /\ server' = [server EXCEPT ![filename] = Append(@, NextPlay(filename))]
    /\ UNCHANGED <<Inputs, ret, pc, frame, text, manifest, dataCache, fetches, tasks, Page>>

\* fetchDataFile(filename) up to its first await: a cached file is answered
\* from the cache, for any other a request is issued
FetchDataFile ==
    /\ \E filename \in Filenames :
          IF CacheHas(dataCache, filename)
          THEN /\ ret' = [op |-> "fetchDataFile", arg |-> filename,
                          outcome |-> "cached", val |-> dataCache[filename]]
               /\ UNCHANGED fetches
          ELSE /\ Len(fetches) < MaxFetches
               /\ fetches' = Append(fetches, filename)
               /\ ret' = [op |-> "fetchDataFile", arg |-> filename,
                          outcome |-> "pending", val |-> <<>>]
    /\ UNCHANGED <<Inputs, pc, frame, text, server, manifest, dataCache, tasks, Page>>

\* The response is ok and its text arrives
FetchSucceeds ==
    /\ \E i \in 1..Len(fetches) :
          /\ fetches[i] \in DOMAIN server
          /\ LET done == FetchParsed(dataCache, fetches[i], server[fetches[i]])
             IN  /\ dataCache' = done.cache
                 /\ ret' = [op |-> "fetchDataFile", arg |-> fetches[i],
                            outcome |-> "fetched", val |-> done.entries]
          /\ fetches' = RemoveAt(fetches, i)
    /\ UNCHANGED <<Inputs, pc, frame, text, server, manifest, tasks, Page>>

\* The network fails, or the response is not ok: a file the server does not
\* have, or any other error status
FetchFails ==
    /\ \E i \in 1..Len(fetches) :
          /\ LET done == FetchCaught(dataCache, fetches[i])
             IN  /\ dataCache' = done.cache
                 /\ ret' = [op |-> "fetchDataFile", arg |-> fetches[i],
                            outcome |-> "failed", val |-> done.entries]
          /\ fetches' = RemoveAt(fetches, i)
    /\ UNCHANGED <<Inputs, pc, frame, text, server, manifest, tasks, Page>>

\* clearCache(): dataCache.clear()
ClearCache ==
    /\ dataCache' = EmptyCache
    /\ ret' = [op |-> "clearCache", arg |-> <<>>, outcome |-> "undefined",
               val |-> <<>>]
    /\ UNCHANGED <<Inputs, pc, frame, text, server, manifest, fetches,
                   tasks, Page>>

InitLoader ==
    /\ entriesAbsent = FALSE
    /\ entries = <<>>
    /\ tz = 0
    /\ clock = ParseDate(FixedTs)
    /\ ret = NoCall
    /\ pc = "idle"
    /\ frame = NoFrame
    /\ text = <<>>
    /\ server \in {[f \in {Week5} |-> <<Plays[1]>>],
                   [f \in Filenames |-> IF f = Week5 THEN <<Plays[1]>>
                                        ELSE <<BrokenLine, Plays[4]>>]}
    /\ manifest = <<Week5>>
    /\ dataCache = EmptyCache
    /\ fetches = <<>>
    /\ tasks = <<>>
    /\ appData = InitialAppData
    /\ status = "loading"

NextLoader ==
    \/ FetchDataFile
    \/ FetchSucceeds
    \/ FetchFails
    \/ ClearCache
    \/ ServerAppend

SpecLoader == InitLoader /\ [][NextLoader]_vars

\* A step in which a fetchDataFile call ends
FetchEnds == Len(fetches') < Len(fetches) /\ ret'.op = "fetchDataFile"

\* A step in which a fetchDataFile call issues a request
FetchBegins == Len(fetches') > Len(fetches) /\ ret'.op = "fetchDataFile"

\* C14: a filename enters the cache only in a step in which a fetch of it
\* succeeds and is parsed, and clearCache leaves the cache empty; a fetch
\* that fails returns [] and leaves the cache as it was; a call for a
\* filename that is not cached issues one new request, and a call for a
\* cached filename returns the cached entries and issues none.
C14_CacheHoldsOnlySuccessfulFetches ==
    [][/\ \A f \in DOMAIN dataCache' \ DOMAIN dataCache :
             /\ FetchEnds
             /\ ret'.outcome = "fetched"
             /\ ret'.arg = f
             /\ f \in DOMAIN server
             /\ dataCache'[f] = ParsedEntries(server[f])
       /\ ret'.op = "clearCache" => dataCache' = EmptyCache
       /\ (FetchEnds /\ ret'.outcome = "failed") =>
             /\ dataCache' = dataCache
             /\ ret'.val = <<>>
       /\ FetchBegins =>
             /\ ~CacheHas(dataCache, ret'.arg)
             /\ ret'.outcome = "pending"
             /\ fetches' = Append(fetches, ret'.arg)
       /\ (ret'.op = "fetchDataFile" /\ ret'.outcome \in {"cached", "pending"}
           /\ ret' # ret) =>
             IF CacheHas(dataCache, ret'.arg)
             THEN /\ ret'.outcome = "cached"
                  /\ ret'.val = dataCache[ret'.arg]
                  /\ fetches' = fetches
                  /\ dataCache' = dataCache
             ELSE FetchBegins
      ]_vars

\* A fetch of one file has failed while another file is cached: the failed
\* file is not in the cache, the other still is
C14_Witness ==
    /\ ret.op = "fetchDataFile"
    /\ ret.outcome = "failed"
    /\ ~CacheHas(dataCache, ret.arg)
    /\ dataCache # EmptyCache

-----------------------------------------------------------------------------
(* The page: init, refreshData and handleFilterChange over appData *)

\* results.flat(): the files' entries, in the order of the filenames
RECURSIVE Flat(_, _)
Flat(files, results) ==
    IF files = <<>> THEN <<>>
    ELSE results[Head(files)] \o Flat(Tail(files), results)

\* sort((a, b) => new Date(a.ts) - new Date(b.ts)): stable, an entry goes
\* behind the sorted entries that are not later than it
InsertByTs(sorted, entry) ==
    LET behind == {k \in 1..Len(sorted) :
                      ParseDate(sorted[k].ts) <= ParseDate(entry.ts)}
        at     == IF behind = {} THEN 0 ELSE CHOOSE k \in behind : \A j \in behind : j <= k
    IN  SubSeq(sorted, 1, at) \o <<entry>> \o SubSeq(sorted, at + 1, Len(sorted))

RECURSIVE SortByTs(_)
SortByTs(s) ==
    IF s = <<>> THEN <<>>
    ELSE InsertByTs(SortByTs(SubSeq(s, 1, Len(s) - 1)), s[Len(s)])

\* fetchMultipleFiles(filenames), once every fetchDataFile has returned
fetchMultipleFiles(files, results) == SortByTs(Flat(files, results))

\* loadAllData().entries: no files, no entries
loadAllData(files, results) ==
    IF files = <<>> THEN <<>> ELSE fetchMultipleFiles(files, results)

\* refreshData after its await, with the filter not applied to the new data
refreshDataUnfiltered(data, loaded) ==
    IF loaded = <<>> THEN data
    ELSE [data EXCEPT !.allEntries = loaded, !.entries = loaded,
                      !.stats = calculateStats(loaded)]

\* init after its await; without entries it throws before it touches appData
initLoaded(data, loaded) ==
    IF loaded = <<>> THEN data
    ELSE [data EXCEPT !.allEntries = loaded, !.entries = loaded,
                      !.stats = calculateStats(loaded)]

\* refreshData after its await; without entries it returns at once
refreshDataLoaded(data, loaded) ==
    IF loaded = <<>> THEN data
    ELSE LET shown == filterByTimePeriod(loaded, data.currentPeriod)
         IN  [data EXCEPT !.allEntries = loaded, !.entries = shown,
                          !.stats = calculateStats(shown)]

\* handleFilterChange(period)
handleFilterChange(data, period) ==
    LET shown == filterByTimePeriod(data.allEntries, period)
    IN  [data EXCEPT !.currentPeriod = period, !.entries = shown,
                     !.stats = calculateStats(shown)]

\* A loadAllData call of init or refreshData awaiting the manifest
LoadTask(kind) ==
    [kind |-> kind, stage |-> "manifest", files |-> <<>>, waiting |-> {},
     results |-> EmptyCache, failed |-> FALSE]

\* What a handler leaves when its loadAllData has returned.  The call notes
\* whether a request of it failed and whether the handler that ran last
\* before it resumed was a filter change.
Resumed(task) ==
    LET loaded == loadAllData(task.files, task.results)
    IN  [appData |-> IF task.kind = "init" THEN initLoaded(appData, loaded)
                     ELSE refreshDataLoaded(appData, loaded),
         status  |-> IF task.kind # "init" THEN status
                     ELSE IF loaded = <<>> THEN "error" ELSE "ready",
         ret     |-> [op |-> task.kind, arg |-> <<>>,
                      outcome |-> IF loaded = <<>> THEN "noData" ELSE "updated",
                      val |-> [failed |-> task.failed,
                               afterFilterChange |->
                                   ret.op = "handleFilterChange"]]]

\* The periods of the page's dropdown that the model follows
FilterPeriods == {"all", "thisweek", "week"}

\* setInterval(refreshData, 60000) fires: refreshData runs to its await.
\* The call is noted with the files the server holds at that time.
RefreshData ==
    /\ status = "ready"
    /\ Len(tasks) < MaxPending
    /\ tasks' = Append(tasks, LoadTask("refreshData"))
    /\ ret' = [op |-> "refreshData", arg |-> <<>>, outcome |-> "pending",
               val |-> [atStart |-> server]]
    /\ UNCHANGED <<Inputs, pc, frame, text, server, manifest, dataCache,
                   fetches, Page>>

\* loadManifest returns, with the server's manifest or, after an error or a
\* response that is not ok, with the fallback; fetchMultipleFiles then calls
\* fetchDataFile for every file.  With every file cached nothing is awaited
\* but settled promises, and the handler resumes before any other event.
ManifestArrives ==
    /\ \E i \in 1..Len(tasks), ok \in BOOLEAN :
          /\ tasks[i].stage = "manifest"
          /\ LET files  == IF ok THEN manifest ELSE createFallbackManifest
                 hits   == {f \in Range(files) : CacheHas(dataCache, f)}
                 misses == Range(files) \ hits
                 task   == [tasks[i] EXCEPT !.stage = "files", !.files = files,
                                            !.waiting = misses, !.failed = ~ok,
                                            !.results = [f \in hits |-> dataCache[f]]]
                 resumed == Resumed(task)
             IN  IF misses = {}
                 THEN /\ tasks' = RemoveAt(tasks, i)
                      /\ appData' = resumed.appData
                      /\ status' = resumed.status
                      /\ ret' = resumed.ret
                 ELSE /\ tasks' = [tasks EXCEPT ![i] = task]
                      /\ UNCHANGED <<appData, status, ret>>
    /\ UNCHANGED <<Inputs, pc, frame, text, server, manifest, dataCache, fetches>>

\* A fetchDataFile call of a load returns: parsed and cached after an ok
\* response, [] after an error.  The last one resumes the handler.
FileArrives ==
    /\ \E i \in 1..Len(tasks) :
          \E f \in tasks[i].waiting, ok \in BOOLEAN :
             /\ ok => f \in DOMAIN server
             /\ LET done == IF ok THEN FetchParsed(dataCache, f, server[f])
                            ELSE FetchCaught(dataCache, f)
                    task == [tasks[i] EXCEPT !.waiting = @ \ {f},
                                             !.results = CacheSet(@, f, done.entries),
                                             !.failed = @ \/ ~ok]
                    resumed == Resumed(task)
                IN  /\ dataCache' = done.cache
                    /\ IF task.waiting = {}
                       THEN /\ tasks' = RemoveAt(tasks, i)
                            /\ appData' = resumed.appData
                            /\ status' = resumed.status
                            /\ ret' = resumed.ret
                       ELSE /\ tasks' = [tasks EXCEPT ![i] = task]
                            /\ UNCHANGED <<appData, status, ret>>
    /\ UNCHANGED <<Inputs, pc, frame, text, server, manifest, fetches>>

\* The user picks a period
HandleFilterChange ==
    /\ status = "ready"
    /\ \E period \in FilterPeriods :
          /\ appData' = handleFilterChange(appData, period)
          /\ ret' = [op |-> "handleFilterChange", arg |-> period,
                     outcome |-> "undefined", val |-> <<>>]
    /\ UNCHANGED <<Inputs, pc, frame, Loader, status>>

\* A new week begins on the server: its file, listed in the manifest
ServerNewFile ==
    /\ getCurrentWeekFilename = Week6
    /\ Week6 \notin DOMAIN server
    /\ server' = CacheSet(server, Week6, <<Plays[Len(Plays)]>>)
    /\ manifest' = Append(manifest, Week6)
    /\ UNCHANGED <<Inputs, ret, pc, frame, text, dataCache, fetches,
                   tasks, Page>>

\* The page has been opened: init awaits loadAllData
InitApp ==
    /\ entriesAbsent = FALSE
    /\ entries = <<>>
    /\ tz = 0
    /\ clock \in LocalClockPool
    /\ \A later \in LocalClockPool : clock <= later
    /\ ret = NoCall
    /\ pc = "idle"
    /\ frame = NoFrame
    /\ text = <<>>
    /\ server = [f \in {Week5} |-> <<Plays[1]>>]
    /\ manifest = <<Week5>>
    /\ dataCache = EmptyCache
    /\ fetches = <<>>
    /\ appData = InitialAppData
    /\ status = "loading"
    /\ tasks = <<LoadTask("init")>>

NextApp ==
    \/ ManifestArrives
    \/ FileArrives
    \/ RefreshData
    \/ HandleFilterChange
    \/ ServerAppend
    \/ ServerNewFile
    \/ Tick

SpecApp == InitApp /\ [][NextApp]_vars

\* A step in which a refreshData call ends
RefreshEnds == Len(tasks') < Len(tasks) /\ ret'.op = "refreshData"

\* The step ends the i-th load, a refresh that got entries without an error
RefreshedBy(i) ==
    /\ RefreshEnds
    /\ tasks' = RemoveAt(tasks, i)
    /\ tasks[i].kind = "refreshData"
    /\ ret'.outcome = "updated"
    /\ ~ret'.val.failed

\* The files the i-th load reads: those of the manifest it got
FilesOf(i) == IF tasks[i].stage = "manifest" THEN manifest ELSE tasks[i].files

\* The step ends the only pending refresh, and no handler has run since that
\* refresh began
RefreshedAlone ==
    /\ Len(tasks) = 1
    /\ RefreshedBy(1)
    /\ ret.op = "refreshData"
    /\ ret.outcome = "pending"

\* The entries the files of that refresh held on the server when it began
OnServerAtStart ==
    UNION {Range(ParsedEntries(ret.val.atStart[f])) :
              f \in Range(FilesOf(1)) \cap DOMAIN ret.val.atStart}

\* C13 (as claimed): when refreshData completes with a non-empty result and
\* no request of it failed, appData.allEntries holds the entries the listed
\* data files had on the server at the time of the refresh, so a play
\* appended to an already loaded file is in the application state.
C13_RefreshShowsServerData ==
    [][RefreshedAlone => OnServerAtStart \subseteq Range(appData'.allEntries)]_vars

\* What a refresh does show: the entries the cache holds for its files
RefreshShowsCachedData ==
    [][\A i \in 1..Len(tasks) :
          RefreshedBy(i) =>
              appData'.allEntries =
                  loadAllData(FilesOf(i), [f \in Range(FilesOf(i)) |-> dataCache'[f]])
      ]_vars

\* appData as a handler leaves it: the period applied to all entries, and
\* the statistics of the entries shown
Consistent(data) ==
    /\ data.entries = filterByTimePeriod(data.allEntries, data.currentPeriod)
    /\ data.stats = calculateStats(data.entries)
    /\ data.stats.totalSongs = Len(data.entries)

=============================================================================
